---- MODULE Spec2Model ----
(***************************************************************************)
(* A model of audio_transcription/services/transcription_service.py:      *)
(* the transcript aligner (_merge_transcription_with_diarization), the    *)
(* fallback diarization (_simple_diarization) and the orchestrator        *)
(* (process_audio) of TranscriptionService.                               *)
(*                                                                         *)
(* Times are integers.  In the orchestrator and in the fallback they are  *)
(* milliseconds (pydub's len(audio) is an integer number of milliseconds  *)
(* and the code divides it by 1000); the aligner only compares times, so  *)
(* its own harness uses a small abstract grid.                            *)
(***************************************************************************)
EXTENDS Integers, Sequences, FiniteSets, TLC

\* ------------------------------------------------------------------ bounds

\* Aligner harness: times 0..MaxTime, at most MaxSegs transcript segments and
\* at most MaxDiar diarization segments.
MaxTime == 2
MaxSegs == 2
MaxDiar == 2
\* Fallback harness: audio lengths 0..MaxDurationMs milliseconds.
MaxDurationMs == 30000
\* Orchestrator: process_audio calls on one TranscriptionService instance, and
\* the most segments the recognizer and the diarization engine answer with.
MaxCalls == 2
OrchMaxSegs == 1
MaxTextLen == 3
MaxRequests == 1
MaxContentLen == 3

\* ---------------------------------------------------------------- constants

\* segment_length = 10  (seconds per fallback bucket)
SEGMENT_LENGTH == 10
\* duration_seconds = len(audio) / 1000
MS_PER_SECOND == 1000

None == "None"
UNKNOWN == "UNKNOWN"

\* ------------------------------------------------------------------ helpers

Min(a, b) == IF a <= b THEN a ELSE b

Range(s) == {s[i] : i \in DOMAIN s}

\* All sequences over S of length at most n.
SeqsUpTo(S, n) == UNION {[1..k -> S] : k \in 0..n}

\* ------------------------------------------------------- str.strip() (l.131)

\* The characters str.strip() removes that the model's texts use.
Whitespace == {" ", "\t", "\n"}

RECURSIVE LStrip(_)
LStrip(s) ==
    IF s # <<>> /\ Head(s) \in Whitespace THEN LStrip(Tail(s)) ELSE s

RECURSIVE RStrip(_)
RStrip(s) ==
    IF s # <<>> /\ s[Len(s)] \in Whitespace
    THEN RStrip(SubSeq(s, 1, Len(s) - 1))
    ELSE s

\* Faulty variant: lstrip() for strip().
StripLeft(s) == LStrip(s)

\* A text is a sequence of characters; strip() drops leading and trailing
\* whitespace.
Strip(s) == RStrip(LStrip(s))

\* ------------------------------------------------- the aligner (l.109-139)

\* Faulty variant: closed intervals, so that touching counts as overlap.
OverlapsClosed(segment, diar_segment) ==
    /\ diar_segment.end >= segment.start
    /\ diar_segment.start <= segment.end

\* l.121-122: diar_segment['end'] > start_time and
\*            diar_segment['start'] < end_time
Overlaps(segment, diar_segment) ==
    /\ diar_segment.end > segment.start
    /\ diar_segment.start < segment.end

\* Faulty variant: every diarization segment votes, overlapping or not.
OverlappingSpeakersAll(segment, diarization) ==
    [i \in DOMAIN diarization |-> diarization[i].speaker]

\* l.119-123: the speakers of the overlapping diarization segments, in the
\* order of the diarization list.
RECURSIVE OverlappingSpeakers(_, _)
OverlappingSpeakers(segment, diarization) ==
    IF diarization = <<>> THEN <<>>
    ELSE LET rest == OverlappingSpeakers(segment, Tail(diarization))
         IN  IF Overlaps(segment, Head(diarization))
             THEN <<Head(diarization).speaker>> \o rest
             ELSE rest

\* list.count
Count(list, x) == Cardinality({i \in DOMAIN list : list[i] = x})

\* The orders in which iterating set(list) can yield its elements.  The
\* elements are strings: their order in a Python set follows their hashes,
\* which are salted per process, and not the order of insertion.
SetIterations(S) ==
    {it \in [1..Cardinality(S) -> S] : \A i, j \in DOMAIN it : it[i] = it[j] => i = j}

\* Faulty variant: min instead of max.
PyMaxLeast(it, list) ==
    LET best == CHOOSE i \in DOMAIN it :
                    /\ \A j \in DOMAIN it : Count(list, it[j]) >= Count(list, it[i])
                    /\ \A j \in 1..(i - 1) : Count(list, it[j]) > Count(list, it[i])
    IN  it[best]

\* max(iterable, key=overlapping_speakers.count): the first element, in the
\* order of iteration, whose key no other element exceeds.
PyMax(it, list) ==
    LET best == CHOOSE i \in DOMAIN it :
                    /\ \A j \in DOMAIN it : Count(list, it[j]) <= Count(list, it[i])
                    /\ \A j \in 1..(i - 1) : Count(list, it[j]) < Count(list, it[i])
    IN  it[best]

\* Faulty variant: a speaker label as the default.
SpeakerOutcomesDefaultSpeaker(overlapping_speakers) ==
    IF overlapping_speakers = <<>> THEN {"SPEAKER_1"}
    ELSE {PyMax(it, overlapping_speakers) :
             it \in SetIterations(Range(overlapping_speakers))}

\* Faulty variant: a tie counts as no speaker found.
SpeakerOutcomesStrictMajority(overlapping_speakers) ==
    LET winners == {PyMax(it, overlapping_speakers) :
                       it \in SetIterations(Range(overlapping_speakers))}
    IN  IF overlapping_speakers = <<>> \/ Cardinality(winners) > 1
        THEN {UNKNOWN}
        ELSE winners

\* l.126: speaker = max(set(overlapping_speakers),
\*                      key=overlapping_speakers.count)
\*                  if overlapping_speakers else "UNKNOWN"
\* The set of values the expression can take, one per iteration order.
SpeakerOutcomes(overlapping_speakers) ==
    IF overlapping_speakers = <<>> THEN {UNKNOWN}
    ELSE {PyMax(it, overlapping_speakers) :
             it \in SetIterations(Range(overlapping_speakers))}

\* Faulty variant: 'end' is given the start time.
MergedSegmentEndIsStart(segment, speaker) ==
    [start |-> segment.start, end |-> segment.start,
     text |-> Strip(segment.text), speaker |-> speaker]

\* l.128-133: the merged segment built from one transcript segment.
MergedSegment(segment, speaker) ==
    [start |-> segment.start, end |-> segment.end,
     text |-> Strip(segment.text), speaker |-> speaker]

\* l.111-133: the merged_segments lists the loop can build.
MergedSegments(segments, diarization) ==
    LET n == Len(segments)
        outcomes(k) == SpeakerOutcomes(OverlappingSpeakers(segments[k], diarization))
    IN  {[i \in 1..n |-> MergedSegment(segments[i], sp[i])] :
            sp \in {f \in [1..n -> UNION {outcomes(k) : k \in 1..n}] :
                       \A k \in 1..n : f[k] \in outcomes(k)}}

\* Faulty variant: segments without an overlapping speaker are left out.
MergeOutcomesDropUnknown(transcription, diarization) ==
    {[segments |-> m,
      text |-> transcription.text,
      language |-> IF "language" \in DOMAIN transcription
                   THEN transcription.language ELSE "en"] :
        m \in MergedSegments(
                 SelectSeq(transcription.segments,
                     LAMBDA s : OverlappingSpeakers(s, diarization) # <<>>),
                 diarization)}

\* Faulty variant: the language is always "en".
MergeOutcomesAlwaysEn(transcription, diarization) ==
    {[segments |-> m, text |-> transcription.text, language |-> "en"] :
        m \in MergedSegments(transcription.segments, diarization)}

\* l.135-139: the results _merge_transcription_with_diarization can return.
\* A transcription is a record with 'text' and 'segments' and, when the
\* recognizer supplies it, 'language'.
MergeOutcomes(transcription, diarization) ==
    {[segments |-> m,
      text |-> transcription.text,
      language |-> IF "language" \in DOMAIN transcription
                   THEN transcription.language ELSE "en"] :
        m \in MergedSegments(transcription.segments, diarization)}

\* ---------------------------------------- the fallback diarization (l.79-98)

\* Faulty variant: the two labels swapped.
BucketSpeakerSwapped(i) == IF i % 20 < 10 THEN "SPEAKER_2" ELSE "SPEAKER_1"

\* l.90: speaker = f"SPEAKER_{1 if i % 20 < 10 else 2}"
BucketSpeaker(i) == IF i % 20 < 10 THEN "SPEAKER_1" ELSE "SPEAKER_2"

\* l.83-96, with len(audio) = duration_ms.  range(0, int(duration_seconds),
\* segment_length) has ceil(int(duration_seconds) / segment_length) elements;
\* min(i + segment_length, duration_seconds) is taken on the exact quotient,
\* here in milliseconds.
SimpleDiarization(duration_ms) ==
    LET whole  == duration_ms \div MS_PER_SECOND
        nrange == (whole + SEGMENT_LENGTH - 1) \div SEGMENT_LENGTH
    IN  [k \in 1..nrange |->
            LET i == (k - 1) * SEGMENT_LENGTH
            IN  [start |-> i * MS_PER_SECOND,
                 end |-> Min((i + SEGMENT_LENGTH) * MS_PER_SECOND, duration_ms),
                 speaker |-> BucketSpeaker(i)]]

\* ------------------------------------------------------------------- state

VARIABLES
    \* TranscriptionService (l.15-19)
    model_size,               \* the whisper model size given at construction
    whisper_model,            \* None or the size of the loaded model
    diarization_pipeline,     \* None or "loaded"
    \* the file system: the set of paths that exist
    fs,
    \* process_audio (l.141-169): where the current call stands and its locals
    pc,                       \* "idle" between calls, else the next stage
    calls,                    \* process_audio calls made on the instance
    audio_file,               \* the input of the current call
    processed_audio_path,     \* <<>> until _convert_audio_format returned
    transcription,            \* <<>> until _transcribe_audio returned
    diarization,              \* <<>> until _perform_diarization returned
    outcome,                  \* "none", "running", "returned" or "raised"
    error,                    \* the stage that raised out of process_audio
    result,                   \* <<>> or <<the returned value>>
    \* what happened, for the properties
    stages,                   \* the stages the current call has run, in order
    engine_failure,           \* "none", "load" or "inference" in this call
    whisper_load_calls,       \* whisper.load_model calls on the instance
    pipeline_load_calls,      \* Pipeline.from_pretrained calls on the instance
    transcribe_calls,         \* whisper_model.transcribe calls in this call
    recognizer_raised,        \* whisper_model.transcribe raised in this call
    \* harness of the aligner: inputs and <<>> or <<the merged result>>
    in_transcription, in_diarization, merged,
    \* harness of the fallback: len(audio) and <<>> or <<the buckets>>
    in_duration_ms, buckets,
    \* TranscriptionAPIView.post and the database
    view_pc,                  \* "idle", or "processing" inside process_audio
    requests,                 \* POST requests received
    services_created,         \* TranscriptionService() calls of this request
    process_audio_calls,      \* process_audio calls of this request
    persistence,              \* "none", "ok", or the create() that raised
    audio_files,              \* the AudioFile rows, in order of creation
    transcriptions,           \* the Transcription rows, in order of creation
    response,                 \* <<>> or <<the last request's response>>
    \* harness of TitleGenerator.generate_title_suggestions
    tg_content,               \* the content argument, a list of tokens
    tg_content_is_str,        \* FALSE when the argument is not a string
    tg_num_suggestions,       \* the num_suggestions argument
    tg_model,                 \* what the T5 model does in this call
    tg_suggestions            \* <<>> or <<the returned list>>

service_vars == <<model_size, whisper_model, diarization_pipeline, fs, pc, calls, audio_file,
                  processed_audio_path, transcription, diarization, outcome,
                  error, result, stages, engine_failure, whisper_load_calls,
                  pipeline_load_calls, transcribe_calls, recognizer_raised>>

merge_vars == <<in_transcription, in_diarization, merged>>

fallback_vars == <<in_duration_ms, buckets>>

view_vars == <<view_pc, requests, services_created, process_audio_calls,
               persistence, audio_files, transcriptions, response>>

title_vars == <<tg_content, tg_content_is_str, tg_num_suggestions, tg_model,
                tg_suggestions>>

vars == <<service_vars, merge_vars, fallback_vars, view_vars, title_vars>>

\* ---------------------------------------------------------- initial states

\* TranscriptionService.__init__ (l.15-19) and an idle process_audio.  The
\* input file exists; no temporary file does.
AUDIO_FILE_PATH == <<"test_audio.mp3", 0>>

ModelSizes == {"base", "small"}

ServiceInit ==
    /\ model_size \in ModelSizes
    /\ whisper_model = None
    /\ diarization_pipeline = None
    /\ fs = {AUDIO_FILE_PATH}
    /\ pc = "idle"
    /\ calls = 0
    /\ audio_file = [readable |-> TRUE, duration_ms |-> 0]
    /\ processed_audio_path = <<>>
    /\ transcription = <<>>
    /\ diarization = <<>>
    /\ outcome = "none"
    /\ error = "none"
    /\ result = <<>>
    /\ stages = <<>>
    /\ engine_failure = "none"
    /\ whisper_load_calls = 0
    /\ pipeline_load_calls = 0
    /\ transcribe_calls = 0
    /\ recognizer_raised = FALSE

MergeIdle ==
    /\ in_transcription = [text |-> <<>>, segments |-> <<>>]
    /\ in_diarization = <<>>
    /\ merged = <<>>

FallbackIdle ==
    /\ in_duration_ms = 0
    /\ buckets = <<>>

\* No request has been received and the tables are empty.
ViewIdle ==
    /\ view_pc = "idle"
    /\ requests = 0
    /\ services_created = 0
    /\ process_audio_calls = 0
    /\ persistence = "none"
    /\ audio_files = <<>>
    /\ transcriptions = <<>>
    /\ response = <<>>

TitleIdle ==
    /\ tg_content = <<>>
    /\ tg_content_is_str = TRUE
    /\ tg_num_suggestions = 1
    /\ tg_model = "load_raises"
    /\ tg_suggestions = <<>>

\* ------------------------------------------------- harness of the aligner

HarnessLabels == {"A", "B"}

HarnessText == <<" ", "h", "i", " ">>

HarnessTimes == 0..MaxTime

\* Segments have start <= end (section 3 of the specification).
HarnessTranscriptSegments ==
    UNION {{[start |-> a, end |-> b, text |-> HarnessText] : b \in a..MaxTime} :
              a \in HarnessTimes}

HarnessDiarizationSegments ==
    UNION {{[start |-> a, end |-> b, speaker |-> sp] :
               b \in a..MaxTime, sp \in HarnessLabels} : a \in HarnessTimes}

\* The worked cases of the specification's section 8 (properties 3, 4, 6).
ExampleInputs ==
    { [t |-> <<[start |-> 5, end |-> 10, text |-> HarnessText]>>,
       d |-> <<[start |-> 10, end |-> 15, speaker |-> "A"]>>],
      [t |-> <<[start |-> 0, end |-> 10, text |-> HarnessText]>>,
       d |-> <<[start |-> 0, end |-> 3, speaker |-> "A"],
               [start |-> 3, end |-> 6, speaker |-> "B"],
               [start |-> 6, end |-> 9, speaker |-> "B"]>>],
      [t |-> <<[start |-> 100, end |-> 110, text |-> HarnessText]>>,
       d |-> <<[start |-> 0, end |-> 50, speaker |-> "A"]>>] }

\* A label that is frequent in the diarization list and never overlaps the
\* transcript segment, against one that overlaps it once.
OutvotedInputs ==
    { [t |-> <<[start |-> 0, end |-> 1, text |-> HarnessText]>>,
       d |-> <<[start |-> 1, end |-> 2, speaker |-> "B"],
               [start |-> 0, end |-> 1, speaker |-> "A"],
               [start |-> 2, end |-> 2, speaker |-> "B"],
               [start |-> 1, end |-> 3, speaker |-> "B"]>>] }

\* The harness starts from inp: a transcript and a diarization list.
MergeInput(t, d) ==
    /\ in_transcription = [text |-> HarnessText, segments |-> t]
    /\ in_diarization = d

\* The inputs of the aligner's harness: the worked cases, every transcript
\* of at most MaxSegs segments against at most one diarization segment, and
\* every one-segment transcript against at most MaxDiar diarization segments
\* (in any order, overlapping or not).
InitMerge ==
    /\ ServiceInit
    /\ FallbackIdle
    /\ ViewIdle
    /\ TitleIdle
    /\ merged = <<>>
    /\ \/ \E inp \in ExampleInputs \cup OutvotedInputs : MergeInput(inp.t, inp.d)
       \/ \E n \in 0..MaxSegs, m \in 0..1 :
             \E t \in [1..n -> HarnessTranscriptSegments],
                d \in [1..m -> HarnessDiarizationSegments] : MergeInput(t, d)
       \/ \E n \in 0..1, m \in 0..MaxDiar :
             \E t \in [1..n -> HarnessTranscriptSegments],
                d \in [1..m -> HarnessDiarizationSegments] : MergeInput(t, d)

\* One call of _merge_transcription_with_diarization on the inputs.
MergeTranscriptionWithDiarization ==
    /\ merged = <<>>
    /\ \E r \in MergeOutcomes(in_transcription, in_diarization) :
          merged' = <<r>>
    /\ UNCHANGED <<in_transcription, in_diarization, service_vars, fallback_vars, view_vars, title_vars>>

NextMerge == MergeTranscriptionWithDiarization

SpecMerge == InitMerge /\ [][NextMerge]_vars

\* ------------------------------------------- harness of the text stripping

StripChars == {" ", "\t", "a", "b"}

\* The specification's worked case: "  hello world  ".
ExampleText ==
    <<" ", " ", "h", "e", "l", "l", "o", " ", "w", "o", "r", "l", "d", " ", " ">>

\* One transcript segment, with every text of at most MaxTextLen characters
\* and the worked case, and no diarization segment.
InitStrip ==
    /\ ServiceInit
    /\ FallbackIdle
    /\ ViewIdle
    /\ TitleIdle
    /\ merged = <<>>
    /\ in_diarization = <<>>
    /\ \E txt \in SeqsUpTo(StripChars, MaxTextLen) \cup {ExampleText} :
          in_transcription =
             [text |-> txt, segments |-> <<[start |-> 0, end |-> 1, text |-> txt]>>]

SpecStrip == InitStrip /\ [][NextMerge]_vars

\* ------------------------------------------------ harness of the fallback

InitFallback ==
    /\ ServiceInit
    /\ MergeIdle
    /\ ViewIdle
    /\ TitleIdle
    /\ in_duration_ms \in 0..MaxDurationMs
    /\ buckets = <<>>

\* One call of _simple_diarization on an audio of in_duration_ms milliseconds.
RunSimpleDiarization ==
    /\ buckets = <<>>
    /\ buckets' = <<SimpleDiarization(in_duration_ms)>>
    /\ UNCHANGED <<in_duration_ms, service_vars, merge_vars, view_vars, title_vars>>

NextFallback == RunSimpleDiarization

SpecFallback == InitFallback /\ [][NextFallback]_vars

\* ------------------------------------------- the orchestrator (l.141-169)

\* What a call can be given and what the collaborators can answer.  Times
\* are milliseconds.
AudioDurations == {0, 20500, 25000}

AudioFiles == [readable : BOOLEAN, duration_ms : AudioDurations]

WhisperSegments ==
    {[start |-> 0, end |-> 10000, text |-> HarnessText],
     [start |-> 10000, end |-> 25000, text |-> <<"o", "k">>],
     [start |-> 0, end |-> 25000, text |-> <<"\t", "o", "k", "\n">>]}

\* 'language' of a recognizer result, NoLanguage when the key is absent.
NoLanguage == ""
WhisperLanguages == {NoLanguage, "en", "fr"}

WhisperText == <<" ", "h", "i", " ", "o", "k">>

WhisperResult(segments, language) ==
    IF language = NoLanguage
    THEN [text |-> WhisperText, segments |-> segments]
    ELSE [text |-> WhisperText, segments |-> segments, language |-> language]

EngineSegments ==
    {[start |-> 0, end |-> 10000, speaker |-> "SPEAKER_00"],
     [start |-> 0, end |-> 10000, speaker |-> "SPEAKER_01"],
     [start |-> 10000, end |-> 25000, speaker |-> "SPEAKER_01"]}

\* l.44: tempfile.mktemp(suffix='.wav') returns a name no file has; the
\* n-th call's name.
TempPath(n) == <<"tmp.wav", n>>

\* Faulty variant: the input file is removed as well.
CleanupOnSuccessRemovesInput(files, processed, input) ==
    files \ {processed, input}

\* l.160-161: if os.path.exists(processed_audio_path) and
\*            processed_audio_path != audio_file_path: os.remove(...)
CleanupOnSuccess(files, processed, input) ==
    IF processed \in files /\ processed # input THEN files \ {processed} ELSE files

\* Faulty variant: no removal.
CleanupOnErrorSkipped(files, processed, input) == files

\* l.167-168: the same, in the except clause.
CleanupOnError(files, processed, input) ==
    IF processed \in files /\ processed # input THEN files \ {processed} ELSE files

\* Faulty variant: the pipeline's exception is not caught.
PerformDiarizationNoCatch(pipeline, engine, readable, duration_ms) ==
    IF pipeline = None
    THEN IF readable THEN <<SimpleDiarization(duration_ms)>> ELSE <<>>
    ELSE engine

\* l.54-77: what _perform_diarization returns, <<segments>>, or <<>> when it
\* raises.  engine is what the pipeline call of l.62-71 gives: <<segments>>,
\* or <<>> when it raises.  _simple_diarization (l.82) reads the processed
\* audio, which raises when the file is not there.
PerformDiarization(pipeline, engine, readable, duration_ms) ==
    IF pipeline = None
    THEN IF readable THEN <<SimpleDiarization(duration_ms)>> ELSE <<>>
    ELSE IF engine # <<>>
         THEN engine
         ELSE IF readable THEN <<SimpleDiarization(duration_ms)>> ELSE <<>>

\* Faulty variant: diarization is run before transcription.
NextStageDiarizeFirst(stage) ==
    CASE stage = "load_models" -> "normalize"
      [] stage = "normalize" -> "diarize"
      [] stage = "diarize" -> "transcribe"
      [] stage = "transcribe" -> "align"

\* l.144-157: the statement that follows a stage that completed:
\* _load_models, _convert_audio_format, _transcribe_audio,
\* _perform_diarization, _merge_transcription_with_diarization.
NextStage(stage) ==
    CASE stage = "load_models" -> "normalize"
      [] stage = "normalize" -> "transcribe"
      [] stage = "transcribe" -> "diarize"
      [] stage = "diarize" -> "align"

\* process_audio raises out of stage st, leaving the files fs2.
Raise(st, fs2) ==
    /\ pc' = "idle"
    /\ outcome' = "raised"
    /\ error' = st
    /\ fs' = fs2

\* l.141: process_audio is entered with the path of some audio file; the
\* locals of the call are fresh.
ProcessAudioEntry ==
    /\ \E a \in AudioFiles : audio_file' = a
    /\ calls' = calls + 1
    /\ pc' = "load_models"
    /\ outcome' = "running"
    /\ error' = "none"
    /\ result' = <<>>
    /\ processed_audio_path' = <<>>
    /\ transcription' = <<>>
    /\ diarization' = <<>>
    /\ stages' = <<>>
    /\ engine_failure' = "none"
    /\ transcribe_calls' = 0
    /\ recognizer_raised' = FALSE

\* l.141: process_audio(audio_file_path) is called on the instance.
ProcessAudio ==
    /\ pc = "idle"
    /\ calls < MaxCalls
    /\ ProcessAudioEntry
    /\ UNCHANGED <<model_size, whisper_model, diarization_pipeline, fs,
                   whisper_load_calls, pipeline_load_calls, merge_vars,
                   fallback_vars, view_vars, title_vars>>

\* Faulty variant: the model is loaded on every call.
WhisperLoadAlways == TRUE

\* l.23: if self.whisper_model is None
WhisperLoadNeeded == whisper_model = None

\* Faulty variant: a failure of whisper.load_model is caught, as the
\* pipeline's is.
WhisperLoadCaught(needed, ok) == FALSE

\* l.23-25: whisper.load_model is called outside any try block, so that its
\* exception leaves _load_models and process_audio.
WhisperLoadRaises(needed, ok) == needed /\ ~ok

\* Faulty variant: the pipeline is loaded at most once, whatever came of it.
PipelineLoadOnce == diarization_pipeline = None /\ pipeline_load_calls = 0

\* l.27: if self.diarization_pipeline is None
PipelineLoadNeeded == diarization_pipeline = None

\* l.144 and l.21-39: _load_models.  whisper.load_model may raise, which
\* ends the call; Pipeline.from_pretrained may raise, which is caught.
LoadModels ==
    /\ pc = "load_models"
    /\ stages' = Append(stages, "load_models")
    /\ \E whisper_ok \in BOOLEAN, pipeline_ok \in BOOLEAN :
          LET load_whisper == WhisperLoadNeeded
              load_pipeline == PipelineLoadNeeded
          IN  IF WhisperLoadRaises(load_whisper, whisper_ok)
              THEN /\ Raise("load_models", fs)
                   /\ whisper_load_calls' = whisper_load_calls + 1
                   /\ UNCHANGED <<whisper_model, diarization_pipeline,
                                  pipeline_load_calls, engine_failure>>
              ELSE /\ whisper_model' =
                         IF load_whisper /\ whisper_ok THEN model_size ELSE whisper_model
                   /\ whisper_load_calls' =
                         whisper_load_calls + (IF load_whisper THEN 1 ELSE 0)
                   /\ diarization_pipeline' =
                         IF load_pipeline
                         THEN IF pipeline_ok THEN "loaded" ELSE None
                         ELSE diarization_pipeline
                   /\ pipeline_load_calls' =
                         pipeline_load_calls + (IF load_pipeline THEN 1 ELSE 0)
                   /\ engine_failure' =
                         IF load_pipeline /\ ~pipeline_ok THEN "load" ELSE "none"
                   /\ pc' = NextStage("load_models")
                   /\ UNCHANGED <<fs, outcome, error>>
    /\ UNCHANGED <<model_size, calls, audio_file, processed_audio_path,
                   transcription, diarization, result, transcribe_calls,
                   recognizer_raised, merge_vars, fallback_vars, view_vars, title_vars>>

\* l.147 and l.41-52: _convert_audio_format, outside the try block.
\* AudioSegment.from_file raises on an unreadable input; audio.export opens
\* the output file and writes it, and may raise before or after the file
\* exists.
ConvertAudioFormat ==
    /\ pc = "normalize"
    /\ stages' = Append(stages, "normalize")
    /\ LET output_path == TempPath(calls)
       IN  IF ~audio_file.readable
           THEN /\ Raise("normalize", fs)
                /\ UNCHANGED processed_audio_path
           ELSE \E export \in {"ok", "raises_before_create", "raises_after_create"} :
                   IF export = "ok"
                   THEN /\ fs' = fs \cup {output_path}
                        /\ processed_audio_path' = <<output_path>>
                        /\ pc' = NextStage("normalize")
                        /\ UNCHANGED <<outcome, error>>
                   ELSE /\ Raise("normalize",
                                 IF export = "raises_after_create"
                                 THEN fs \cup {output_path} ELSE fs)
                        /\ UNCHANGED processed_audio_path
    /\ UNCHANGED <<model_size, whisper_model, diarization_pipeline, calls,
                   audio_file, transcription, diarization, result,
                   engine_failure, whisper_load_calls, pipeline_load_calls,
                   transcribe_calls, recognizer_raised, merge_vars,
                   fallback_vars, view_vars, title_vars>>

\* Faulty variant: a failure of the recognizer gives an empty transcription.
TranscribeAudioSwallows(answer) ==
    IF answer = <<>>
    THEN <<[text |-> <<>>, segments |-> <<>>]>>
    ELSE answer

\* l.100-107: what _transcribe_audio returns, <<result>>, or <<>> when it
\* raises.  answer is what whisper_model.transcribe gives: <<result>>, or
\* <<>> when it raises; the except clause logs and raises again.
TranscribeAudioResult(answer) == answer

\* l.151 and l.100-107: _transcribe_audio; when whisper_model.transcribe
\* raises, the except clause of l.164-169 cleans up and raises again.
TranscribeAudio ==
    /\ pc = "transcribe"
    /\ stages' = Append(stages, "transcribe")
    /\ transcribe_calls' = transcribe_calls + 1
    /\ \E answer \in {<<>>} \cup
                     UNION {{<<WhisperResult(segments, language)>> :
                                segments \in [1..n -> WhisperSegments],
                                language \in WhisperLanguages} :
                               n \in 0..OrchMaxSegs} :
          LET r == TranscribeAudioResult(answer)
          IN  /\ recognizer_raised' = (answer = <<>>)
              /\ IF r = <<>>
                 THEN /\ Raise("transcribe",
                               CleanupOnError(fs, processed_audio_path[1],
                                              AUDIO_FILE_PATH))
                      /\ UNCHANGED transcription
                 ELSE /\ transcription' = r
                      /\ pc' = NextStage("transcribe")
                      /\ UNCHANGED <<fs, outcome, error>>
    /\ UNCHANGED <<model_size, whisper_model, diarization_pipeline, calls,
                   audio_file, processed_audio_path, diarization, result,
                   engine_failure, whisper_load_calls, pipeline_load_calls,
                   merge_vars, fallback_vars, view_vars, title_vars>>

\* l.154 and l.54-77: _perform_diarization on the processed audio, whose
\* length is the input's.
Diarize ==
    /\ pc = "diarize"
    /\ stages' = Append(stages, "diarize")
    /\ \E engine \in {<<>>} \cup
                     UNION {{<<d>> : d \in [1..n -> EngineSegments]} :
                               n \in 0..OrchMaxSegs} :
          \* without a pipeline the engine is not called
          /\ diarization_pipeline = None => engine = <<>>
          /\ LET r == PerformDiarization(diarization_pipeline, engine,
                                         processed_audio_path[1] \in fs,
                                         audio_file.duration_ms)
             IN  /\ engine_failure' =
                       IF diarization_pipeline # None /\ engine = <<>>
                       THEN "inference" ELSE engine_failure
                 /\ IF r = <<>>
                    THEN /\ Raise("diarize",
                                  CleanupOnError(fs, processed_audio_path[1],
                                                 AUDIO_FILE_PATH))
                         /\ UNCHANGED diarization
                    ELSE /\ diarization' = r
                         /\ pc' = NextStage("diarize")
                         /\ UNCHANGED <<fs, outcome, error>>
    /\ UNCHANGED <<model_size, whisper_model, diarization_pipeline, calls,
                   audio_file, processed_audio_path, transcription, result,
                   whisper_load_calls, pipeline_load_calls, transcribe_calls,
                   recognizer_raised, merge_vars, fallback_vars, view_vars, title_vars>>

\* l.157-163: merge, clean up, return the result.
Align ==
    /\ pc = "align"
    /\ stages' = Append(stages, "align")
    /\ \E r \in MergeOutcomes(transcription[1], diarization[1]) :
          result' = <<r>>
    /\ fs' = CleanupOnSuccess(fs, processed_audio_path[1], AUDIO_FILE_PATH)
    /\ outcome' = "returned"
    /\ pc' = "idle"
    /\ UNCHANGED <<model_size, whisper_model, diarization_pipeline, calls,
                   audio_file, processed_audio_path, transcription,
                   diarization, error, engine_failure, whisper_load_calls,
                   pipeline_load_calls, transcribe_calls, recognizer_raised,
                   merge_vars, fallback_vars, view_vars, title_vars>>

Init ==
    /\ ServiceInit
    /\ MergeIdle
    /\ FallbackIdle
    /\ ViewIdle
    /\ TitleIdle

Next ==
    \/ ProcessAudio
    \/ LoadModels
    \/ ConvertAudioFormat
    \/ TranscribeAudio
    \/ Diarize
    \/ Align

Spec == Init /\ [][Next]_vars

\* ------------------------------------ TranscriptionAPIView.post (views.py)

\* The request's 'model_size' field: absent, or one of the sizes.
RequestModelSizes == {<<>>} \cup {<<m>> : m \in ModelSizes}

\* l.43: request.data.get('model_size', 'base')
RequestedModelSize(given) == IF given = <<>> THEN "base" ELSE given[1]

\* l.52-55: AudioFile.objects.create(file=audio_file, processed=True)
NewAudioFile(id) == [id |-> id, processed |-> TRUE]

\* l.57-61: Transcription.objects.create(audio_file=audio_model,
\*          json_result=result, completed_at=timezone.now())
NewTranscription(id, audio_id, res) ==
    [id |-> id, audio_file |-> audio_id, json_result |-> res]

\* Faulty variant: the segments are left out of the response.
ResponseDataNoSegments(transcription_id, res) ==
    [status |-> 200, transcription_id |-> transcription_id, text |-> res.text,
     segments |-> <<>>,
     language |-> IF "language" \in DOMAIN res THEN res.language ELSE "en"]

\* l.68-76: the body of the 200 response.
ResponseData(transcription_id, res) ==
    [status |-> 200, transcription_id |-> transcription_id, text |-> res.text,
     segments |-> res.segments,
     language |-> IF "language" \in DOMAIN res THEN res.language ELSE "en"]

\* l.64-65: if os.path.exists(temp_file_path): os.remove(temp_file_path)
RemoveUploadOnSuccess(files, path) == files \ {path}

\* Faulty variant: the except clause leaves the temporary file.
RemoveUploadOnErrorSkipped(files, path) == files

\* l.82-83: the same, in the except clause.
RemoveUploadOnError(files, path) == files \ {path}

\* Faulty variant: the upload is copied to the temporary file before the
\* test for 'audio'.
PostWithoutAudioWritesUpload ==
    /\ view_pc = "idle"
    /\ requests < MaxRequests
    /\ requests' = requests + 1
    /\ services_created' = 0
    /\ process_audio_calls' = 0
    /\ persistence' = "none"
    /\ fs' = fs \cup {AUDIO_FILE_PATH}
    /\ response' = <<[status |-> 400, error |-> "No audio file provided"]>>
    /\ UNCHANGED <<model_size, whisper_model, diarization_pipeline, pc, calls,
                   audio_file, processed_audio_path, transcription, diarization,
                   outcome, error, result, stages, engine_failure,
                   whisper_load_calls, pipeline_load_calls, transcribe_calls,
                   recognizer_raised, view_pc, audio_files, transcriptions,
                   merge_vars, fallback_vars, title_vars>>

\* l.27-31: a POST without 'audio' in request.FILES is answered 400.
PostWithoutAudio ==
    /\ view_pc = "idle"
    /\ requests < MaxRequests
    /\ requests' = requests + 1
    /\ services_created' = 0
    /\ process_audio_calls' = 0
    /\ persistence' = "none"
    /\ response' = <<[status |-> 400, error |-> "No audio file provided"]>>
    /\ UNCHANGED <<view_pc, audio_files, transcriptions, service_vars,
                   merge_vars, fallback_vars, title_vars>>

\* l.33-49: a POST with 'audio': the upload is copied to a temporary file,
\* whose path is AUDIO_FILE_PATH here, a TranscriptionService is made with
\* the requested model size, and its process_audio is entered with that path.
PostWithAudio ==
    /\ view_pc = "idle"
    /\ pc = "idle"
    /\ requests < MaxRequests
    /\ requests' = requests + 1
    /\ fs' = fs \cup {AUDIO_FILE_PATH}
    /\ \E given \in RequestModelSizes : model_size' = RequestedModelSize(given)
    /\ whisper_model' = None
    /\ diarization_pipeline' = None
    /\ whisper_load_calls' = 0
    /\ pipeline_load_calls' = 0
    /\ services_created' = 1
    /\ ProcessAudioEntry
    /\ process_audio_calls' = 1
    /\ view_pc' = "processing"
    /\ persistence' = "none"
    /\ response' = <<>>
    /\ UNCHANGED <<audio_files, transcriptions, merge_vars, fallback_vars, title_vars>>

\* l.49-88: process_audio has returned or raised.  After a return the two
\* rows are created, either of which can raise; the temporary file is
\* removed (l.64-65, and l.82-83 in the except clause) and the response is
\* 200 with the result, or 500 with the error.
ViewComplete ==
    /\ view_pc = "processing"
    /\ pc = "idle"
    /\ outcome \in {"returned", "raised"}
    /\ view_pc' = "idle"
    /\ IF outcome = "raised"
       THEN /\ persistence' = "none"
            /\ fs' = RemoveUploadOnError(fs, AUDIO_FILE_PATH)
            /\ response' = <<[status |-> 500, error |-> error]>>
            /\ UNCHANGED <<audio_files, transcriptions>>
       ELSE \E p \in {"ok", "audio_file_raised", "transcription_raised"} :
               /\ persistence' = p
               /\ fs' = IF p = "ok"
                        THEN RemoveUploadOnSuccess(fs, AUDIO_FILE_PATH)
                        ELSE RemoveUploadOnError(fs, AUDIO_FILE_PATH)
               /\ audio_files' =
                     IF p = "audio_file_raised"
                     THEN audio_files
                     ELSE Append(audio_files, NewAudioFile(Len(audio_files) + 1))
               /\ transcriptions' =
                     IF p = "ok"
                     THEN Append(transcriptions,
                                 NewTranscription(Len(transcriptions) + 1,
                                                  Len(audio_files) + 1, result[1]))
                     ELSE transcriptions
               /\ response' =
                     IF p = "ok"
                     THEN <<ResponseData(Len(transcriptions) + 1, result[1])>>
                     ELSE <<[status |-> 500, error |-> p]>>
    /\ UNCHANGED <<model_size, whisper_model, diarization_pipeline, pc, calls,
                   audio_file, processed_audio_path, transcription, diarization,
                   outcome, error, result, stages, engine_failure,
                   whisper_load_calls, pipeline_load_calls, transcribe_calls,
                   recognizer_raised, requests, services_created,
                   process_audio_calls, merge_vars, fallback_vars, title_vars>>

\* No request has been received: no service exists and the temporary
\* directory is empty.
InitView ==
    /\ model_size = "base"
    /\ whisper_model = None
    /\ diarization_pipeline = None
    /\ fs = {}
    /\ pc = "idle"
    /\ calls = 0
    /\ audio_file = [readable |-> TRUE, duration_ms |-> 0]
    /\ processed_audio_path = <<>>
    /\ transcription = <<>>
    /\ diarization = <<>>
    /\ outcome = "none"
    /\ error = "none"
    /\ result = <<>>
    /\ stages = <<>>
    /\ engine_failure = "none"
    /\ whisper_load_calls = 0
    /\ pipeline_load_calls = 0
    /\ transcribe_calls = 0
    /\ recognizer_raised = FALSE
    /\ MergeIdle
    /\ FallbackIdle
    /\ ViewIdle
    /\ TitleIdle

NextView ==
    \/ PostWithoutAudio
    \/ PostWithAudio
    \/ LoadModels
    \/ ConvertAudioFormat
    \/ TranscribeAudio
    \/ Diarize
    \/ Align
    \/ ViewComplete

SpecView == InitView /\ [][NextView]_vars

\* ----------------------- TitleGenerator (services/title_generator.py)

\* A content is a list of tokens: words, the sentence marks "." and "!",
\* and "\n", a run of extra whitespace.  In the string, a word is
\* preceded by one space unless it comes first, and a mark follows the
\* token before it directly.
ContentWords == {"About", "AI", "Data", "Python", "python"}

SentenceMarks == {".", "!"}

ContentTokens == ContentWords \cup SentenceMarks \cup {"\n"}

\* len(word)
WordLen(w) ==
    CASE w = "About" -> 5
      [] w = "AI" -> 2
      [] w = "Data" -> 4
      [] w \in {"Python", "python"} -> 6
      [] OTHER -> 1

\* word.lower()
Lower(w) ==
    CASE w = "About" -> "about"
      [] w = "AI" -> "ai"
      [] w = "Data" -> "data"
      [] w \in {"Python", "python"} -> "python"
      [] OTHER -> w

\* str.capitalize() of a lower-case keyword
Capitalize(w) ==
    CASE w = "about" -> "About"
      [] w = "ai" -> "Ai"
      [] w = "data" -> "Data"
      [] w = "python" -> "Python"
      [] OTHER -> w

\* l.69-70: the stop words that the model's words can lower to.
Stopwords == {"the", "a", "an", "and", "or", "but", "is", "are", "was",
              "were", "in", "on", "at", "to", "for", "with", "by", "about",
              "of"}

\* Faulty variant: no cut.
TakeAll(list, n) == list

\* list[:n]
Take(list, n) == SubSeq(list, 1, Min(n, Len(list)))

\* len() of the string of a token list.
RECURSIVE StrLen(_)
StrLen(tokens) ==
    IF tokens = <<>> THEN 0
    ELSE LET last == tokens[Len(tokens)]
             front == SubSeq(tokens, 1, Len(tokens) - 1)
         IN  StrLen(front) + WordLen(last)
                + (IF last \in ContentWords /\ front # <<>> THEN 1 ELSE 0)

\* The tokens before the first token of the set marks.
RECURSIVE UpTo(_, _)
UpTo(tokens, marks) ==
    IF tokens = <<>> \/ Head(tokens) \in marks THEN <<>>
    ELSE <<Head(tokens)>> \o UpTo(Tail(tokens), marks)

\* The tokens from the first one that is not in the set marks.
RECURSIVE SkipAll(_, _)
SkipAll(tokens, marks) ==
    IF tokens # <<>> /\ Head(tokens) \in marks
    THEN SkipAll(Tail(tokens), marks)
    ELSE tokens

\* l.33: re.sub(r'\s+', ' ', content).strip() leaves single spaces; l.36-52
\* apply to contents of more than 1024 characters only, which the model's
\* contents are not.
PreprocessContent(content) ==
    SelectSeq(content, LAMBDA tok : tok # "\n")

\* dict.fromkeys(list): the list without the later copies of an element.
RECURSIVE DictFromKeys(_)
DictFromKeys(list) ==
    IF list = <<>> THEN <<>>
    ELSE LET front == DictFromKeys(SubSeq(list, 1, Len(list) - 1))
             last == list[Len(list)]
         IN  IF last \in Range(front) THEN front ELSE Append(front, last)

\* sorted(keys, key=freq, reverse=True): a stable sort, so that keys of the
\* same frequency keep their order.
RECURSIVE SortedByFreq(_, _)
SortedByFreq(keys, words) ==
    IF keys = <<>> THEN <<>>
    ELSE LET front == SortedByFreq(SubSeq(keys, 1, Len(keys) - 1), words)
             last == keys[Len(keys)]
             ahead == SelectSeq(front, LAMBDA k : Count(words, k) >= Count(words, last))
             behind == SelectSeq(front, LAMBDA k : Count(words, k) < Count(words, last))
         IN  ahead \o <<last>> \o behind

\* l.56-81: _extract_keywords(content), with num_keywords = 5.
ExtractKeywords(content) ==
    LET first_sentence == UpTo(SkipAll(content, SentenceMarks), SentenceMarks)
        kept == SelectSeq(first_sentence,
                          LAMBDA w : Lower(w) \notin Stopwords /\ WordLen(w) > 3)
        words == [i \in DOMAIN kept |-> Lower(kept[i])]
    IN  Take(SortedByFreq(DictFromKeys(words), words), 5)

\* str.upper() of the first character of a model output.
Upper(c) ==
    CASE c = "a" -> "A"
      [] c = "b" -> "B"
      [] OTHER -> c

\* l.124-125: t.strip(), then t[0].upper() + t[1:] if t else "".
CleanTitle(t) ==
    LET stripped == Strip(t)
    IN  IF stripped = <<>> THEN <<>>
        ELSE <<Upper(Head(stripped))>> \o Tail(stripped)

\* What the T5 model does in one call: from_pretrained raises, generate
\* raises, or the three decoded outputs (two sampled, one more, l.98-121).
RawTitles == {<<" ", "a">>, <<"A">>, <<"b", " ">>}

ModelBehaviours ==
    {[raises |-> "load", outputs |-> <<>>],
     [raises |-> "generate", outputs |-> <<>>]}
    \cup {[raises |-> "none", outputs |-> o] : o \in [1..3 -> RawTitles]}

\* l.83-132: _generate_title_with_model: <<the cleaned titles>>, or <<>>
\* for the None of the except clause.
GenerateTitleWithModel(model) ==
    IF model.raises # "none" THEN <<>>
    ELSE <<[i \in DOMAIN model.outputs |-> CleanTitle(model.outputs[i])]>>

\* l.136-162: the titles of the templates, in the order of the list; the
\* fifth template needs two keywords, the others one.
TemplateTitles(keywords) ==
    LET k0 == Capitalize(keywords[1])
        one == [i \in 1..7 |->
                   CASE i = 1 -> <<<<"The Ultimate Guide to", k0>>>>
                     [] i = 2 -> <<<<"How to Master", k0, "in Simple Steps">>>>
                     [] i = 3 -> <<<<k0, ": A Comprehensive Analysis">>>>
                     [] i = 4 -> <<<<"Understanding", k0,
                                     ": Key Insights and Strategies">>>>
                     [] i = 5 -> IF Len(keywords) >= 2
                                 THEN <<<<"The Essential Guide to", k0, "and",
                                          Capitalize(keywords[2])>>>>
                                 ELSE <<>>
                     [] i = 6 -> <<<<"Why", k0, "Matters in Today's World">>>>
                     [] i = 7 -> <<<<k0, ": Trends and Future Perspectives">>>>]
    IN  IF keywords = <<>> THEN <<>>
        ELSE one[1] \o one[2] \o one[3] \o one[4] \o one[5] \o one[6] \o one[7]

\* l.134-164: _generate_title_rule_based(content, keywords).
GenerateTitleRuleBased(content, keywords) ==
    LET first_sentence == UpTo(content, {"."})
        opening == IF StrLen(first_sentence) < 70 /\ StrLen(first_sentence) > 10
                   THEN <<first_sentence>>
                   ELSE <<>>
    IN  Take(opening \o TemplateTitles(keywords), 5)

\* l.198-202
DefaultTitles == <<<<"My Blog Post">>, <<"New Article">>, <<"Interesting Insights">>>>

\* Faulty variant: a failure of the model gives the default titles.
GenerateTitleSuggestionsNoRuleFallback(content, is_str, num_suggestions, model) ==
    IF ~is_str \/ model.raises # "none" THEN DefaultTitles
    ELSE LET processed_content == PreprocessContent(content)
             keywords == ExtractKeywords(processed_content)
             model_titles == GenerateTitleWithModel(model)
             rule_based_titles == GenerateTitleRuleBased(processed_content, keywords)
         IN  Take(DictFromKeys(model_titles[1] \o rule_based_titles), num_suggestions)

\* l.166-202: generate_title_suggestions.  A content that is not a string
\* makes re.sub of l.33 raise, which the except clause of l.194 answers
\* with the default titles.
GenerateTitleSuggestions(content, is_str, num_suggestions, model) ==
    IF ~is_str THEN DefaultTitles
    ELSE LET processed_content == PreprocessContent(content)
             keywords == ExtractKeywords(processed_content)
             model_titles == GenerateTitleWithModel(model)
             rule_based_titles == GenerateTitleRuleBased(processed_content, keywords)
             all_titles == (IF model_titles # <<>> /\ model_titles[1] # <<>>
                            THEN model_titles[1]
                            ELSE <<>>) \o rule_based_titles
         IN  Take(DictFromKeys(all_titles), num_suggestions)

\* -------------------------------------- harness of the title generator

\* The view limits num_suggestions to 1..5 (blog views.py l.32).
MaxSuggestions == 5

InitTitles ==
    /\ ServiceInit
    /\ model_size = "base"
    /\ MergeIdle
    /\ FallbackIdle
    /\ ViewIdle
    /\ tg_suggestions = <<>>
    /\ tg_num_suggestions \in 1..MaxSuggestions
    /\ tg_model \in ModelBehaviours
    /\ \/ /\ tg_content_is_str = TRUE
          /\ \E n \in 0..MaxContentLen : tg_content \in [1..n -> ContentTokens]
       \/ /\ tg_content_is_str = FALSE
          /\ tg_content = <<>>

\* One call of generate_title_suggestions on the inputs.
RunGenerateTitleSuggestions ==
    /\ tg_suggestions = <<>>
    /\ tg_suggestions' = <<GenerateTitleSuggestions(tg_content, tg_content_is_str,
                                                    tg_num_suggestions, tg_model)>>
    /\ UNCHANGED <<tg_content, tg_content_is_str, tg_num_suggestions, tg_model,
                   service_vars, merge_vars, fallback_vars, view_vars>>

NextTitles == RunGenerateTitleSuggestions

SpecTitles == InitTitles /\ [][NextTitles]_vars

\* ------------------------------------------------ properties of the aligner

\* The diarization entries (indices) that strictly overlap transcript
\* segment seg, written out from the specification's section 4.2 step 1.
StrictOverlap(seg) ==
    {k \in DOMAIN in_diarization :
        in_diarization[k].end > seg.start /\ in_diarization[k].start < seg.end}

\* The number of entries of the strict overlap set of seg labelled l.
Votes(seg, l) ==
    Cardinality({k \in StrictOverlap(seg) : in_diarization[k].speaker = l})

\* The labels with the most votes in the strict overlap set of seg.
Winners(seg) ==
    {in_diarization[k].speaker : k \in
        {k \in StrictOverlap(seg) :
            \A j \in StrictOverlap(seg) :
                Votes(seg, in_diarization[j].speaker)
                    <= Votes(seg, in_diarization[k].speaker)}}

\* The label of the first entry of the diarization list that strictly
\* overlaps seg and whose label is among the winners.
FirstSeenWinner(seg) ==
    LET first == CHOOSE k \in StrictOverlap(seg) :
                    /\ in_diarization[k].speaker \in Winners(seg)
                    /\ \A j \in StrictOverlap(seg) :
                          in_diarization[j].speaker \in Winners(seg) => k <= j
    IN  in_diarization[first].speaker

InSegs == in_transcription.segments

OutSegs == merged[1].segments

\* C1: the merged 'segments' list has the length of the transcript's segment
\* list and its i-th element is built from the i-th transcript segment (same
\* start and end, the stripped text) with a single speaker label; nothing is
\* dropped or duplicated.
C1_OneAlignedSegmentPerTranscriptSegment ==
    merged # <<>> =>
        /\ Len(OutSegs) = Len(InSegs)
        /\ \A i \in DOMAIN InSegs :
              /\ OutSegs[i].start = InSegs[i].start
              /\ OutSegs[i].end = InSegs[i].end
              /\ OutSegs[i].text = <<"h", "i">>
              /\ OutSegs[i].speaker \in HarnessLabels \cup {UNKNOWN}

\* Witness of C1: two different transcript segments were merged, one with an
\* overlapping diarization segment and one without.
C1_Witness ==
    /\ merged # <<>>
    /\ Len(InSegs) = 2
    /\ InSegs[1] # InSegs[2]
    /\ InSegs[1].start > InSegs[2].start
    /\ OutSegs[1].speaker = UNKNOWN
    /\ OutSegs[2].speaker = "B"

\* C2: against a single diarization segment (ds, de, speaker), a transcript
\* segment (ts, te) gets that speaker if and only if de > ts and ds < te, and
\* UNKNOWN otherwise; touching at an endpoint is no overlap, so (5, 10)
\* against (10, 15, A) gives UNKNOWN.
C2_StrictOverlapDecidesTheVote ==
    (merged # <<>> /\ Len(in_diarization) = 1) =>
        \A i \in DOMAIN InSegs :
            LET d == in_diarization[1]
            IN  /\ (d.end > InSegs[i].start /\ d.start < InSegs[i].end)
                      <=> OutSegs[i].speaker = d.speaker
                /\ (d.end = InSegs[i].start \/ d.start = InSegs[i].end)
                      => OutSegs[i].speaker = UNKNOWN

\* Witness of C2: the worked case, (5, 10) against (10, 15, A), merged.
C2_Witness ==
    /\ merged # <<>>
    /\ InSegs = <<[start |-> 5, end |-> 10, text |-> HarnessText]>>
    /\ in_diarization = <<[start |-> 10, end |-> 15, speaker |-> "A"]>>
    /\ OutSegs[1].speaker = UNKNOWN

\* C3: when the strict overlap set of a transcript segment is not empty, the
\* assigned speaker is a label of that set with the largest number of
\* entries in it (entries are counted, durations are not); (0, 10) against
\* [(0,3,A), (3,6,B), (6,9,B)] gives B.
C3_MajorityByCount ==
    merged # <<>> =>
        /\ \A i \in DOMAIN InSegs :
              StrictOverlap(InSegs[i]) # {} =>
                  /\ Votes(InSegs[i], OutSegs[i].speaker) >= 1
                  /\ \A l \in HarnessLabels :
                        Votes(InSegs[i], l) <= Votes(InSegs[i], OutSegs[i].speaker)
        /\ (/\ InSegs = <<[start |-> 0, end |-> 10, text |-> HarnessText]>>
            /\ in_diarization = <<[start |-> 0, end |-> 3, speaker |-> "A"],
                                  [start |-> 3, end |-> 6, speaker |-> "B"],
                                  [start |-> 6, end |-> 9, speaker |-> "B"]>>)
              => OutSegs[1].speaker = "B"

\* Witness of C3: the worked case merged; B wins with two entries of total
\* duration 6 over A's one entry.
C3_Witness ==
    /\ merged # <<>>
    /\ Len(InSegs) = 1
    /\ Len(in_diarization) = 3
    /\ Votes(InSegs[1], "A") = 1
    /\ Votes(InSegs[1], "B") = 2
    /\ OutSegs[1].speaker = "B"

\* C4 as claimed: when several labels tie for the highest count, the
\* assigned label is the tied label seen first among the overlapping
\* diarization entries.
C4_TieGoesToFirstSeen ==
    merged # <<>> =>
        \A i \in DOMAIN InSegs :
            Cardinality(Winners(InSegs[i])) >= 2 =>
                OutSegs[i].speaker = FirstSeenWinner(InSegs[i])

\* C4 as amended: when several labels tie for the highest count, the
\* assigned label is one of the tied labels (which one follows the iteration
\* order of a set of strings, not the order of the diarization list).
C4_TieGoesToATiedLabel ==
    merged # <<>> =>
        \A i \in DOMAIN InSegs :
            Cardinality(Winners(InSegs[i])) >= 2 =>
                OutSegs[i].speaker \in Winners(InSegs[i])

\* Witness of C4: a tie was resolved to the label seen later.
C4_Witness ==
    /\ merged # <<>>
    /\ Len(InSegs) = 1
    /\ Cardinality(Winners(InSegs[1])) = 2
    /\ OutSegs[1].speaker # FirstSeenWinner(InSegs[1])

\* C5: a transcript segment that no diarization segment strictly overlaps
\* (an empty diarization list included) is present in the result with
\* speaker UNKNOWN.
C5_NoOverlapGivesUnknown ==
    merged # <<>> =>
        \A i \in DOMAIN InSegs :
            StrictOverlap(InSegs[i]) = {} =>
                /\ i \in DOMAIN OutSegs
                /\ OutSegs[i].speaker = UNKNOWN
                /\ OutSegs[i].start = InSegs[i].start
                /\ OutSegs[i].end = InSegs[i].end

\* Witness of C5: the worked case, (100, 110) against a diarization inside
\* (0, 50), merged.
C5_Witness ==
    /\ merged # <<>>
    /\ InSegs = <<[start |-> 100, end |-> 110, text |-> HarnessText]>>
    /\ in_diarization = <<[start |-> 0, end |-> 50, speaker |-> "A"]>>
    /\ OutSegs = <<[start |-> 100, end |-> 110, text |-> <<"h", "i">>,
                    speaker |-> UNKNOWN]>>

\* ----------------------------------------------- properties of the fallback

Buckets == buckets[1]

\* C6 as claimed: for every duration D >= 0 the buckets cover [0, D): none
\* for D = 0; otherwise the first starts at 0, each starts where the
\* previous one ends, all but the last are 10 seconds wide and the last ends
\* at D.
C6_BucketsCoverTheDuration ==
    buckets # <<>> =>
        /\ in_duration_ms = 0 => Buckets = <<>>
        /\ in_duration_ms > 0 =>
              /\ Buckets # <<>>
              /\ Buckets[1].start = 0
              /\ \A k \in 1..(Len(Buckets) - 1) :
                    /\ Buckets[k + 1].start = Buckets[k].end
                    /\ Buckets[k].end - Buckets[k].start = 10 * 1000
              /\ Buckets[Len(Buckets)].end = in_duration_ms

\* C7: the bucket starting at offset i seconds (a multiple of 10) is
\* SPEAKER_1 when i mod 20 < 10 and SPEAKER_2 otherwise, so the labels
\* alternate from SPEAKER_1; 25 seconds give (0,10,SPEAKER_1),
\* (10,20,SPEAKER_2), (20,25,SPEAKER_1).
C7_BucketLabelsAlternate ==
    buckets # <<>> =>
        /\ \A k \in DOMAIN Buckets :
              LET i == Buckets[k].start \div 1000
              IN  /\ Buckets[k].start = i * 1000
                  /\ i % 10 = 0
                  /\ Buckets[k].speaker =
                        (IF i % 20 < 10 THEN "SPEAKER_1" ELSE "SPEAKER_2")
                  /\ Buckets[k].speaker =
                        (IF k % 2 = 1 THEN "SPEAKER_1" ELSE "SPEAKER_2")
        /\ in_duration_ms = 25 * 1000 =>
              Buckets = <<[start |-> 0, end |-> 10000, speaker |-> "SPEAKER_1"],
                          [start |-> 10000, end |-> 20000, speaker |-> "SPEAKER_2"],
                          [start |-> 20000, end |-> 25000, speaker |-> "SPEAKER_1"]>>

\* Witness of C7: the fallback has run on 25 seconds and produced three
\* buckets, the last one labelled SPEAKER_1.
C7_Witness ==
    /\ buckets # <<>>
    /\ in_duration_ms = 25 * 1000
    /\ Len(Buckets) = 3
    /\ Buckets[2].speaker = "SPEAKER_2"
    /\ Buckets[3] = [start |-> 20000, end |-> 25000, speaker |-> "SPEAKER_1"]

\* ------------------------------------------- properties of the orchestrator

\* The last process_audio call has returned or raised.
Exited == pc = "idle" /\ outcome \in {"returned", "raised"}

\* C8: once process_audio has returned or raised after normalization
\* produced an artifact at a path other than the input's, the artifact does
\* not exist.
C8_ArtifactRemovedOnExit ==
    (/\ Exited
     /\ processed_audio_path # <<>>
     /\ processed_audio_path[1] # AUDIO_FILE_PATH)
        => processed_audio_path[1] \notin fs

\* Witness of C8: recognition raised after normalization had written its
\* artifact, and the artifact is gone while the input is still there.
C8_Witness ==
    /\ Exited
    /\ outcome = "raised"
    /\ error = "transcribe"
    /\ processed_audio_path = <<TempPath(calls)>>
    /\ TempPath(calls) \notin fs
    /\ AUDIO_FILE_PATH \in fs

\* C9 as claimed: on every exit of process_audio, a failure inside
\* normalization included, no temporary audio file of that call (or of an
\* earlier one) is left.
C9_NoTemporaryFileLeftOnAnyExit ==
    Exited => \A n \in 1..calls : TempPath(n) \notin fs

\* C10: in a call where the models loaded, normalization and recognition
\* succeeded and the diarization engine failed (at load or at inference),
\* process_audio returns a result, and the result is the merge of the
\* transcription with the fallback's segments.
C10_EngineFailureFallsBack ==
    (Exited /\ engine_failure # "none" /\ transcription # <<>>) =>
        /\ outcome = "returned"
        /\ diarization = <<SimpleDiarization(audio_file.duration_ms)>>
        /\ result # <<>>
        /\ result[1] \in MergeOutcomes(transcription[1],
                                       SimpleDiarization(audio_file.duration_ms))

\* Witness of C10: the engine raised at inference and the call returned a
\* segment labelled by the fallback.
C10_Witness ==
    /\ Exited
    /\ engine_failure = "inference"
    /\ outcome = "returned"
    /\ result # <<>>
    /\ Len(result[1].segments) = 1
    /\ result[1].segments[1].speaker = "SPEAKER_2"

\* A load of the diarization pipeline has failed on the instance: the
\* handle is unset after an attempt, or it took more than one attempt to set.
PipelineLoadHasFailed ==
    pipeline_load_calls > (IF diarization_pipeline = None THEN 0 ELSE 1)

\* C11 as claimed: once loading the diarization engine has failed on an
\* instance, the instance never attempts the load again and the handle
\* stays unset (the fallback is permanent).
C11_FallbackIsPermanent ==
    [][PipelineLoadHasFailed =>
          /\ pipeline_load_calls' = pipeline_load_calls
          /\ diarization_pipeline' = None]_vars

\* C11 as amended: a call whose load of the diarization engine failed uses
\* the fallback, and every call that finds the handle unset attempts the
\* load again.
C11_LoadRetriedWhileUnset ==
    /\ []((engine_failure = "load" /\ diarization # <<>>) =>
             diarization = <<SimpleDiarization(audio_file.duration_ms)>>)
    /\ [][(pc = "load_models" /\ pc' = "normalize" /\ diarization_pipeline = None)
             => pipeline_load_calls' = pipeline_load_calls + 1]_vars

\* Witness of C11: the first call's load failed, the second call's load
\* succeeded and the second call was diarized by the engine.
C11_Witness ==
    /\ Exited
    /\ calls = 2
    /\ pipeline_load_calls = 2
    /\ diarization_pipeline = "loaded"
    /\ outcome = "returned"
    /\ Len(diarization[1]) = 1
    /\ diarization[1][1].speaker = "SPEAKER_00"

\* C12: nothing is loaded at construction; the recognizer is loaded by the
\* first call, with the instance's model size; a model that has been loaded
\* is not loaded again, so that one load_model call serves all calls.
C12_ModelsLoadedLazilyAndOnce ==
    /\ [](calls = 0 =>
             /\ whisper_model = None
             /\ diarization_pipeline = None
             /\ whisper_load_calls = 0
             /\ pipeline_load_calls = 0)
    /\ [](whisper_model # None =>
             /\ whisper_model = model_size
             /\ whisper_load_calls >= 1)
    /\ []((calls = 1 /\ whisper_model # None) => whisper_load_calls = 1)
    /\ [][/\ whisper_model # None =>
                /\ whisper_load_calls' = whisper_load_calls
                /\ whisper_model' = whisper_model
          /\ diarization_pipeline # None =>
                /\ pipeline_load_calls' = pipeline_load_calls
                /\ diarization_pipeline' = diarization_pipeline
          /\ (whisper_model = None /\ whisper_model' # None) =>
                /\ pc = "load_models"
                /\ whisper_load_calls' = whisper_load_calls + 1]_vars

\* Witness of C12: two calls have returned on an instance of size "small"
\* and load_model was called once.
C12_Witness ==
    /\ Exited
    /\ calls = 2
    /\ outcome = "returned"
    /\ model_size = "small"
    /\ whisper_model = "small"
    /\ whisper_load_calls = 1
    /\ pipeline_load_calls = 1

\* ---------------------------------------------------------------------
\* C13: when the recognizer raises, process_audio raises that error after
\* its cleanup: no result is returned, nothing after transcription runs,
\* the artifact is gone, and the recognizer was invoked once: it is
\* invoked at most once per process_audio call, so never retried.
C13_RecognizerFailurePropagates ==
    /\ transcribe_calls <= 1
    /\ (Exited /\ recognizer_raised) =>
          /\ outcome = "raised"
          /\ error = "transcribe"
          /\ result = <<>>
          /\ diarization = <<>>
          /\ transcribe_calls = 1
          /\ processed_audio_path # <<>>
          /\ processed_audio_path[1] \notin fs
          /\ stages = <<"load_models", "normalize", "transcribe">>

C13_Witness ==
    /\ Exited
    /\ recognizer_raised
    /\ error = "transcribe"
    /\ transcribe_calls = 1
    /\ result = <<>>

\* The order of process_audio's statements, as stage names.
StageOrder == <<"load_models", "normalize", "transcribe", "diarize", "align">>

\* C14: within one process_audio call the stages start in the order
\* normalize, transcribe, diarize, align (after the model load), each one
\* after the one before it has completed: the log of started stages is
\* always a prefix of that order, and a call that returned ran them all.
C14_StagesRunInOrder ==
    /\ Len(stages) <= Len(StageOrder)
    /\ \A i \in 1..Len(stages) : i <= Len(StageOrder) => stages[i] = StageOrder[i]
    /\ (Exited /\ outcome = "returned") => stages = StageOrder
    /\ (pc \notin {"idle", "load_models"}) =>
          (stages # <<>> /\ pc = NextStage(stages[Len(stages)]))

C14_Witness ==
    /\ Exited
    /\ outcome = "returned"
    /\ stages = <<"load_models", "normalize", "transcribe", "diarize", "align">>
    /\ result # <<>>

\* C15: process_audio never deletes its input file: the only file it ever
\* removes is the artifact of the running call, whose path is not the
\* input's.
C15_InputFileIsNeverDeleted ==
    /\ [](AUDIO_FILE_PATH \in fs)
    /\ [][/\ AUDIO_FILE_PATH \in fs => AUDIO_FILE_PATH \in fs'
          /\ fs \ fs' \subseteq
                (IF processed_audio_path = <<>>
                 THEN {}
                 ELSE {processed_audio_path[1]} \ {AUDIO_FILE_PATH})]_vars

C15_Witness ==
    /\ Exited
    /\ outcome = "returned"
    /\ processed_audio_path = <<TempPath(calls)>>
    /\ TempPath(calls) \notin fs
    /\ AUDIO_FILE_PATH \in fs

\* C16: a failure to load the recognizer is fatal: no stage runs without a
\* loaded recognizer, and the call that failed to load it raised that
\* error before normalization, so that it created no artifact.
C16_RecognizerLoadFailureIsFatal ==
    /\ (pc \in {"normalize", "transcribe", "diarize", "align"}) => whisper_model # None
    /\ (Exited /\ whisper_model = None) =>
          /\ outcome = "raised"
          /\ error = "load_models"
          /\ result = <<>>
          /\ stages = <<"load_models">>
          /\ processed_audio_path = <<>>
          /\ TempPath(calls) \notin fs

C16_Witness ==
    /\ Exited
    /\ whisper_model = None
    /\ whisper_load_calls = 2
    /\ calls = 2
    /\ error = "load_models"
    /\ fs = {AUDIO_FILE_PATH}

\* C17: every aligned segment has the start and the end of the transcript
\* segment at its position, whatever the diarization segments are: these
\* may start earlier, end later or be absent.
C17_TimingCopiedFromTranscript ==
    merged # <<>> =>
        \A i \in DOMAIN OutSegs :
            /\ i \in DOMAIN InSegs
            /\ <<OutSegs[i].start, OutSegs[i].end>> = <<InSegs[i].start, InSegs[i].end>>

\* Witness of C17: a transcript segment over [1, 2] was given the speaker of
\* a diarization segment over [0, 2] and kept its own bounds.
C17_Witness ==
    /\ merged # <<>>
    /\ Len(InSegs) = 1
    /\ Len(in_diarization) = 1
    /\ InSegs[1].start = 1
    /\ InSegs[1].end = 2
    /\ in_diarization[1].start = 0
    /\ in_diarization[1].end = 2
    /\ OutSegs[1].speaker = in_diarization[1].speaker
    /\ OutSegs[1].start = 1
    /\ OutSegs[1].end = 2

\* C18: the result process_audio returns has the recognizer's 'text'
\* unchanged (its leading space included), and as 'language' the
\* recognizer's when it gave one and "en" when it gave none.
C18_TextAndLanguageOfTheResult ==
    result # <<>> =>
        /\ transcription # <<>>
        /\ result[1].text = transcription[1].text
        /\ result[1].text = WhisperText
        /\ "language" \in DOMAIN transcription[1] =>
              result[1].language = transcription[1].language
        /\ "language" \notin DOMAIN transcription[1] => result[1].language = "en"

\* Witness of C18: the recognizer gave no language and the result has "en",
\* with the text's leading space kept.
C18_Witness ==
    /\ result # <<>>
    /\ "language" \notin DOMAIN transcription[1]
    /\ result[1].language = "en"
    /\ Head(result[1].text) = " "

\* The recognizer gave "fr" and the result has it.
C18_WitnessLanguageGiven ==
    /\ result # <<>>
    /\ "language" \in DOMAIN transcription[1]
    /\ result[1].language = "fr"

\* s has no leading and no trailing whitespace character.
Bare(s) == s = <<>> \/ (s[1] \notin Whitespace /\ s[Len(s)] \notin Whitespace)

\* C19: the aligned segment's text is the transcript segment's text without
\* its leading and trailing whitespace: it is the slice between the first
\* and the last character that is not whitespace, interior whitespace
\* kept; a text with no surrounding whitespace is copied as it is, and
\* "  hello world  " gives "hello world".
C19_SegmentTextIsStripped ==
    merged # <<>> =>
        LET t == InSegs[1].text
            o == OutSegs[1].text
        IN  /\ Bare(o)
            /\ \E i \in 1..(Len(t) + 1), j \in 0..Len(t) :
                  /\ o = SubSeq(t, i, j)
                  /\ \A k \in 1..Len(t) : (k < i \/ k > j) => t[k] \in Whitespace
            /\ Bare(t) => o = t
            /\ t = ExampleText =>
                  o = <<"h", "e", "l", "l", "o", " ", "w", "o", "r", "l", "d">>

\* Witness of C19: the worked case was stripped on both sides.
C19_Witness ==
    /\ merged # <<>>
    /\ InSegs[1].text = ExampleText
    /\ Len(OutSegs[1].text) = 11
    /\ OutSegs[1].text[6] = " "

\* A short text with whitespace on both sides and inside was stripped.
C19_WitnessShort ==
    /\ merged # <<>>
    /\ InSegs[1].text = <<"\t", "a", " ">>
    /\ OutSegs[1].text = <<"a">>

\* ------------------------------------------------ properties of the view

\* response is the answer to a request that has ended.
Responded == view_pc = "idle" /\ response # <<>>

\* C20: a POST with an 'audio' file whose processing succeeds (process_audio
\* returns and the two rows are created) is answered 200; and a request
\* answered 200 made one TranscriptionService, called process_audio once,
\* added one AudioFile row with processed = TRUE and one Transcription row
\* that holds the result and points to that AudioFile, and has the
\* result's 'text' and 'segments' in its response.
C20_SuccessfulPost ==
    /\ []((Responded /\ response[1].status = 200) =>
             /\ services_created = 1
             /\ process_audio_calls = 1
             /\ outcome = "returned"
             /\ response[1].text = result[1].text
             /\ response[1].segments = result[1].segments
             /\ audio_files # <<>>
             /\ transcriptions # <<>>
             /\ audio_files[Len(audio_files)].processed = TRUE
             /\ transcriptions[Len(transcriptions)].json_result = result[1]
             /\ transcriptions[Len(transcriptions)].audio_file =
                   audio_files[Len(audio_files)].id
             /\ response[1].transcription_id =
                   transcriptions[Len(transcriptions)].id)
    /\ []((Responded /\ process_audio_calls = 1 /\ outcome = "returned"
              /\ persistence = "ok") => response[1].status = 200)
    /\ [][(view_pc = "processing" /\ view_pc' = "idle"
              /\ response'[1].status = 200) =>
             /\ Len(audio_files') = Len(audio_files) + 1
             /\ Len(transcriptions') = Len(transcriptions) + 1]_vars

\* Witness of C20: a request was answered 200 with a segment and the id of
\* the row that was created for it.
C20_Witness ==
    /\ Responded
    /\ requests = 1
    /\ response[1].status = 200
    /\ response[1].transcription_id = Len(transcriptions)
    /\ Len(response[1].segments) = 1
    /\ Len(audio_files) = 1
    /\ Len(transcriptions) = 1

\* ------------------------------------------------------------------
\* C22: the speaker of an aligned segment is UNKNOWN or the label of a
\* diarization segment that strictly overlaps the transcript segment; a
\* label carried only by segments that do not overlap it is never given,
\* however many of them there are.
C22_SpeakerComesFromAnOverlap ==
    merged # <<>> =>
        \A i \in DOMAIN OutSegs :
            \/ OutSegs[i].speaker = UNKNOWN
            \/ \E k \in DOMAIN in_diarization :
                  /\ in_diarization[k].speaker = OutSegs[i].speaker
                  /\ in_diarization[k].end > InSegs[i].start
                  /\ in_diarization[k].start < InSegs[i].end

\* Witness of C22: three segments labelled B that do not overlap the
\* transcript segment, one labelled A that does, and A was given.
C22_Witness ==
    /\ merged # <<>>
    /\ Len(in_diarization) = 4
    /\ Cardinality({k \in DOMAIN in_diarization :
                       in_diarization[k].speaker = "B"}) = 3
    /\ \A k \in StrictOverlap(InSegs[1]) : in_diarization[k].speaker = "A"
    /\ OutSegs[1].speaker = "A"

\* C23: in a call where recognition failed, neither the diarization step
\* nor the alignment step was started; the diarization step is started
\* only in calls where the recognizer has returned a transcription.
C23_NoDiarizationAfterFailedRecognition ==
    /\ recognizer_raised =>
          /\ "diarize" \notin Range(stages)
          /\ "align" \notin Range(stages)
          /\ pc \notin {"diarize", "align"}
          /\ diarization = <<>>
    /\ ("diarize" \in Range(stages) \/ pc \in {"diarize", "align"}) =>
          /\ transcription # <<>>
          /\ ~recognizer_raised

\* Witness of C23: recognition failed under a loaded diarization engine and
\* the call has ended with two stages behind the model load.
C23_Witness ==
    /\ Exited
    /\ recognizer_raised
    /\ diarization_pipeline # None
    /\ Len(stages) = 3
    /\ diarization = <<>>

\* C24: a POST with an 'audio' file has its temporary copy on disk while
\* process_audio runs and removed when the request has ended, with 200
\* (process_audio returned and both rows were created) or with 500
\* (process_audio or a create() raised); a failure is always answered 500.
C24_UploadCopyRemovedOn200And500 ==
    /\ view_pc = "processing" => AUDIO_FILE_PATH \in fs
    /\ view_pc = "idle" => AUDIO_FILE_PATH \notin fs
    /\ (Responded /\ process_audio_calls = 1) =>
          /\ response[1].status \in {200, 500}
          /\ response[1].status = 500 <=>
                (outcome = "raised" \/ persistence # "ok")
          /\ response[1].status = 200 <=>
                (outcome = "returned" /\ persistence = "ok")

\* Witness of C24: process_audio raised in transcription, the request was
\* answered 500 and the temporary copy is gone.
C24_Witness ==
    /\ Responded
    /\ process_audio_calls = 1
    /\ outcome = "raised"
    /\ error = "transcribe"
    /\ response[1].status = 500
    /\ AUDIO_FILE_PATH \notin fs

\* A create() raised after process_audio returned: 500, copy removed.
C24_WitnessPersistence ==
    /\ Responded
    /\ outcome = "returned"
    /\ persistence = "transcription_raised"
    /\ response[1].status = 500
    /\ AUDIO_FILE_PATH \notin fs

\* C25: a POST without an 'audio' file is answered 400 and changes nothing
\* else: no file is written, no TranscriptionService is made, process_audio
\* is not called, and no row is added to either table.
C25_PostWithoutAudioChangesNothing ==
    /\ []((Responded /\ response[1].status = 400) =>
             /\ services_created = 0
             /\ process_audio_calls = 0)
    /\ [][(requests' = requests + 1 /\ response' # <<>>
              /\ response'[1].status = 400) =>
             /\ fs' = fs
             /\ audio_files' = audio_files
             /\ transcriptions' = transcriptions
             /\ UNCHANGED service_vars
             /\ view_pc' = view_pc]_vars

\* Witness of C25: a request was answered 400 with no file on disk, no
\* model loaded and empty tables.
C25_Witness ==
    /\ Responded
    /\ requests = 1
    /\ response[1].status = 400
    /\ fs = {}
    /\ whisper_model = None
    /\ calls = 0
    /\ audio_files = <<>>
    /\ transcriptions = <<>>

\* -------------------------------------- properties of the title generator

Suggestions == tg_suggestions[1]

\* The rule-based titles of the harness's content.
RuleTitles ==
    GenerateTitleRuleBased(PreprocessContent(tg_content),
                           ExtractKeywords(PreprocessContent(tg_content)))

C26_ModelFailureGivesRuleBasedTitles ==
    tg_suggestions # <<>> =>
        /\ (tg_content_is_str /\ tg_model.raises # "none") =>
              /\ Len(Suggestions) = Min(tg_num_suggestions, Len(RuleTitles))
              /\ \A i \in DOMAIN Suggestions : Suggestions[i] = RuleTitles[i]
              /\ \A i, j \in DOMAIN Suggestions :
                    i # j => Suggestions[i] # Suggestions[j]
        /\ Suggestions = DefaultTitles <=> ~tg_content_is_str

\* Witness of C26: from_pretrained raised, the first sentence has two
\* keywords, and the first three rule-based titles were returned.
C26_Witness ==
    /\ tg_suggestions # <<>>
    /\ tg_content_is_str
    /\ tg_model.raises = "load"
    /\ tg_num_suggestions = 3
    /\ tg_content = <<"Python", "Data", ".">>
    /\ Suggestions = <<<<"Python", "Data">>,
                       <<"The Ultimate Guide to", "Python">>,
                       <<"How to Master", "Python", "in Simple Steps">>>>

\* generate raised and the content gives no rule-based title.
C26_WitnessNoTitle ==
    /\ tg_suggestions # <<>>
    /\ tg_content_is_str
    /\ tg_model.raises = "generate"
    /\ RuleTitles = <<>>
    /\ Suggestions = <<>>

\* The content was not a string and the default titles were returned.
C26_WitnessDefaults ==
    /\ tg_suggestions # <<>>
    /\ ~tg_content_is_str
    /\ tg_num_suggestions = 1
    /\ Suggestions = DefaultTitles

====
